---- MODULE Spec2Model ----
(***************************************************************************)
(* Model of the AI deadlock detection system: the process and resource    *)
(* registries (services/), the resource allocation graph and its cycle    *)
(* search (models/deadlock_detector.py), the risk estimator               *)
(* (models/ai_predictor.py) and the request handlers of main.py.          *)
(*                                                                         *)
(* Probabilities are exact hundredths (75 stands for 0.75); utilisation   *)
(* and mean wait time are exact fractions [num, den].                     *)
(***************************************************************************)
EXTENDS Integers, Sequences, FiniteSets, TLC

(***************************************************************************)
(* Bounds of the model.                                                    *)
(***************************************************************************)
MaxProcs == 2
MaxRes == 2
MaxInst == 2
MaxFanouts == 1
MaxObservers == 2
\* size of the snapshots given to detect_deadlock on its own
DetProcs == 3
MaxRing == 5
DetRes == 3
\* number of nodes of the adjacency maps given to dfs_cycle_detection
MaxDfsNodes == 3

\* process ids / resource ids a request may carry (ids are not validated)
PIDs == 1..MaxProcs
RIDs == 1..MaxRes
InstChoices == 0..MaxInst
\* instance counts the create handler is given in the system specification
HandlerInstChoices == {0, 1}
ReqChoices == {<<>>, <<1>>}

\* base probabilities the classifier may return, in hundredths
BaseProbs == {70, 71}

EmptyMap == [i \in {} |-> 0]

VARIABLES processes, process_counter, resources, resource_counter,
          model_loaded, graph, active_connections, fanouts, sample, last

vars == <<processes, process_counter, resources, resource_counter,
          model_loaded, graph, active_connections, fanouts, sample, last>>

(***************************************************************************)
(* Python values: dictionary keys of the registries are ints; graph node   *)
(* names are the strings "P<id>" / "R<id>".                                *)
(***************************************************************************)
PyInt(n) == [py |-> "int", val |-> n]
PNode(id) == [t |-> "P", id |-> id]
RNode(id) == [t |-> "R", id |-> id]
PyStr(node) == [py |-> "str", val |-> node]

Max(a, b) == IF a >= b THEN a ELSE b
Min(a, b) == IF a <= b THEN a ELSE b

RECURSIVE SetToSeq(_)
\* ascending enumeration of a finite set of integers (dict insertion order:
\* ids are handed out by an increasing counter)
SetToSeq(S) ==
    IF S = {} THEN <<>>
    ELSE LET m == CHOOSE x \in S : \A y \in S : x <= y
         IN <<m>> \o SetToSeq(S \ {m})

Contains(seq, x) == \E i \in 1..Len(seq) : seq[i] = x

\* list.remove(x): drops the first occurrence
RemoveFirst(seq, x) ==
    LET i == CHOOSE j \in 1..Len(seq) :
                 seq[j] = x /\ \A k \in 1..(j - 1) : seq[k] # x
    IN SubSeq(seq, 1, i - 1) \o SubSeq(seq, i + 1, Len(seq))

Count(seq, x) == Cardinality({i \in 1..Len(seq) : seq[i] = x})

(***************************************************************************)
(* ProcessManager                                                          *)
(***************************************************************************)
NewProcess(requested) ==
    [allocated |-> <<>>, requested |-> requested, wait_time |-> 0,
     state |-> "ready"]

\* returns the new registry, the new counter and the id handed out
create_process(procs, ctr, requested) ==
    LET id == ctr + 1
    IN [processes |-> [i \in DOMAIN procs \cup {id} |->
                          IF i = id THEN NewProcess(requested) ELSE procs[i]],
        counter |-> id,
        id |-> id]

\* `key in self.processes` compares a Python value with the int keys
KeyInProcesses(procs, key) == key.py = "int" /\ key.val \in DOMAIN procs

terminate_process(procs, key) ==
    IF KeyInProcesses(procs, key)
    THEN [i \in DOMAIN procs \ {key.val} |-> procs[i]]
    ELSE procs

\* numbering restarted at the wrong value
pm_reset_OffByOne == [processes |-> EmptyMap, counter |-> 1]

pm_reset == [processes |-> EmptyMap, counter |-> 0]

(***************************************************************************)
(* ResourceManager                                                         *)
(***************************************************************************)
NewResource(instances) ==
    [instances |-> instances, available |-> instances, allocated_to |-> <<>>]

create_resource(res, ctr, instances) ==
    LET id == ctr + 1
    IN [resources |-> [i \in DOMAIN res \cup {id} |->
                          IF i = id THEN NewResource(instances) ELSE res[i]],
        counter |-> id,
        id |-> id]

\* the availability test accepts 0
allocate_resource_NoGuard(res, pid, rid) ==
    IF rid \notin DOMAIN res
    THEN [resources |-> res, ok |-> FALSE]
    ELSE IF res[rid].available >= 0
         THEN [resources |->
                  [res EXCEPT ![rid].available = @ - 1,
                              ![rid].allocated_to = Append(@, pid)],
               ok |-> TRUE]
         ELSE [resources |-> res, ok |-> FALSE]

\* the record is updated before the availability test
allocate_resource_MutateFirst(res, pid, rid) ==
    IF rid \notin DOMAIN res
    THEN [resources |-> res, ok |-> FALSE]
    ELSE [resources |->
             [res EXCEPT ![rid].available = @ - 1,
                         ![rid].allocated_to = Append(@, pid)],
          ok |-> res[rid].available > 0]

allocate_resource(res, pid, rid) ==
    IF rid \notin DOMAIN res
    THEN [resources |-> res, ok |-> FALSE]
    ELSE IF res[rid].available > 0
         THEN [resources |->
                  [res EXCEPT ![rid].available = @ - 1,
                              ![rid].allocated_to = Append(@, pid)],
               ok |-> TRUE]
         ELSE [resources |-> res, ok |-> FALSE]

\* every occurrence of the process is removed for one instance given back
release_resource_AllOccurrences(res, pid, rid) ==
    IF rid \in DOMAIN res /\ Contains(res[rid].allocated_to, pid)
    THEN [res EXCEPT ![rid].allocated_to = SelectSeq(@, LAMBDA x : x # pid),
                     ![rid].available = @ + 1]
    ELSE res

\* available is incremented whether or not the process held an instance
release_resource_Unchecked(res, pid, rid) ==
    IF rid \in DOMAIN res
    THEN [res EXCEPT ![rid].allocated_to =
                         IF Contains(@, pid) THEN RemoveFirst(@, pid) ELSE @,
                     ![rid].available = @ + 1]
    ELSE res

release_resource(res, pid, rid) ==
    IF rid \in DOMAIN res /\ Contains(res[rid].allocated_to, pid)
    THEN [res EXCEPT ![rid].allocated_to = RemoveFirst(@, pid),
                     ![rid].available = @ + 1]
    ELSE res

rm_reset == [resources |-> EmptyMap, counter |-> 0]

(***************************************************************************)
(* DeadlockDetector: the resource allocation graph (a networkx DiGraph:    *)
(* nodes and successors are kept in insertion order, edges are unique).    *)
(***************************************************************************)
EmptyGraph == [nodes |-> <<>>, adj |-> EmptyMap]

add_node(G, n) ==
    IF Contains(G.nodes, n) THEN G
    ELSE [nodes |-> Append(G.nodes, n),
          adj |-> [m \in DOMAIN G.adj \cup {n} |->
                      IF m = n THEN <<>> ELSE G.adj[m]]]

\* a repeated insertion adds a parallel edge
add_edge_Parallel(G, u, v) ==
    LET G1 == add_node(add_node(G, u), v)
    IN [G1 EXCEPT !.adj[u] = Append(@, v)]

add_edge(G, u, v) ==
    LET G1 == add_node(add_node(G, u), v)
    IN IF Contains(G1.adj[u], v) THEN G1
       ELSE [G1 EXCEPT !.adj[u] = Append(@, v)]

RECURSIVE AddAllocatedEdges(_, _, _, _)
\* for res_id in proc_data["allocated"]: add_node(R); add_edge(R, P)
AddAllocatedEdges(G, pid, list, i) ==
    IF i > Len(list) THEN G
    ELSE AddAllocatedEdges(
             add_edge(add_node(G, RNode(list[i])), RNode(list[i]), PNode(pid)),
             pid, list, i + 1)

RECURSIVE AddRequestedEdges_Reversed(_, _, _, _)
\* the request edge drawn from the resource to the process
AddRequestedEdges_Reversed(G, pid, list, i) ==
    IF i > Len(list) THEN G
    ELSE AddRequestedEdges_Reversed(
             add_edge(add_node(G, RNode(list[i])), RNode(list[i]), PNode(pid)),
             pid, list, i + 1)

RECURSIVE AddRequestedEdges(_, _, _, _)
\* for res_id in proc_data["requested"]: add_node(R); add_edge(P, R)
AddRequestedEdges(G, pid, list, i) ==
    IF i > Len(list) THEN G
    ELSE AddRequestedEdges(
             add_edge(add_node(G, RNode(list[i])), PNode(pid), RNode(list[i])),
             pid, list, i + 1)

AddProcess(G, procs, pid) ==
    AddRequestedEdges(
        AddAllocatedEdges(add_node(G, PNode(pid)), pid, procs[pid].allocated, 1),
        pid, procs[pid].requested, 1)

RECURSIVE BuildFrom(_, _, _, _)
\* for proc_id, proc_data in processes.items(); the test on G2 always holds
\* (the node of order[i] is in it) and makes each step evaluate its graph
BuildFrom(G, procs, order, i) ==
    IF i > Len(order) THEN G
    ELSE LET G2 == AddProcess(G, procs, order[i])
         IN IF Contains(G2.nodes, PNode(order[i]))
            THEN BuildFrom(G2, procs, order, i + 1)
            ELSE G2

\* the graph detect_deadlock builds from processes.items()
BuildGraph(procs) == BuildFrom(EmptyGraph, procs, SetToSeq(DOMAIN procs), 1)

RECURSIVE EdgesFrom(_, _)
\* for edge in self.graph.edges(): the out-edges of each node, node by node
EdgesFrom(G, i) ==
    IF i > Len(G.nodes) THEN <<>>
    ELSE LET n == G.nodes[i]
         IN [j \in 1..Len(G.adj[n]) |-> [source |-> n, target |-> G.adj[n][j]]]
            \o EdgesFrom(G, i + 1)

get_graph_data(G) ==
    [nodes |-> [i \in 1..Len(G.nodes) |->
                   [id |-> G.nodes[i],
                    type |-> IF G.nodes[i].t = "P" THEN "process"
                             ELSE "resource"]],
     edges |-> EdgesFrom(G, 1)]

(***************************************************************************)
(* nx.find_cycle(G) with no source and no orientation: for every start     *)
(* node not yet explored it consumes nx.edge_dfs(G, start) and keeps the   *)
(* list of edges of the current path.  An edge is <<tail, head>>.          *)
(***************************************************************************)
RECURSIVE Backtrack(_, _, _)
\* the `while True` loop run when an edge results from backtracking
Backtrack(edges, active, tail) ==
    IF edges = <<>> THEN [edges |-> <<>>, active |-> {tail}]
    ELSE LET popped == edges[Len(edges)]
             rest == SubSeq(edges, 1, Len(edges) - 1)
             act == active \ {popped[2]}
         IN IF rest # <<>> /\ rest[Len(rest)][2] = tail
            THEN [edges |-> rest, active |-> act]
            ELSE Backtrack(rest, act, tail)

NoResult(seen) == [found |-> FALSE, edges |-> <<>>, final |-> <<>>, seen |-> seen]

RECURSIVE Explore(_, _, _)
\* one start node: s.stack / s.pos are edge_dfs's stack and per-node edge
\* iterators, s.edges / s.seen / s.active / s.prev are find_cycle's locals
Explore(G, s, explored) ==
    IF s.stack = <<>> THEN NoResult(s.seen)
    ELSE
      LET cur == s.stack[Len(s.stack)]
      IN IF s.pos[cur] > Len(G.adj[cur])
         THEN Explore(G, [s EXCEPT !.stack = SubSeq(@, 1, Len(@) - 1)], explored)
         ELSE
           LET head == G.adj[cur][s.pos[cur]]
               s1 == [s EXCEPT !.pos[cur] = @ + 1, !.stack = Append(@, head)]
           IN IF head \in explored THEN Explore(G, s1, explored)
              ELSE
                LET bt == IF s.prev # <<>> /\ cur # s.prev[1]
                          THEN Backtrack(s.edges, s.active, cur)
                          ELSE [edges |-> s.edges, active |-> s.active]
                    edges2 == Append(bt.edges, <<cur, head>>)
                IN IF head \in bt.active
                   THEN [found |-> TRUE, edges |-> edges2,
                         final |-> <<head>>, seen |-> s.seen]
                   ELSE Explore(G,
                                [s1 EXCEPT !.edges = edges2,
                                           !.seen = @ \cup {head},
                                           !.active = bt.active \cup {head},
                                           !.prev = <<head>>],
                                explored)

NodeSet(G) == {G.nodes[i] : i \in 1..Len(G.nodes)}

StartState(G, start) ==
    [stack |-> <<start>>, pos |-> [n \in NodeSet(G) |-> 1], edges |-> <<>>,
     seen |-> {start}, active |-> {start}, prev |-> <<>>]

\* the whole path of the search is returned, lead-in included
TrimCycle_WholePath(edges, final) == edges

\* `for i, edge in enumerate(cycle): if tail == final_node: break` then cycle[i:]
TrimCycle(edges, final) ==
    LET hits == {i \in 1..Len(edges) : edges[i][1] = final}
        i == IF hits = {} THEN Len(edges)
             ELSE CHOOSE j \in hits : \A k \in hits : j <= k
    IN SubSeq(edges, i, Len(edges))

RECURSIVE FindCycleFrom(_, _, _)
\* <<>> stands for NetworkXNoCycle
FindCycleFrom(G, i, explored) ==
    IF i > Len(G.nodes) THEN <<>>
    ELSE IF G.nodes[i] \in explored THEN FindCycleFrom(G, i + 1, explored)
    ELSE LET r == Explore(G, StartState(G, G.nodes[i]), explored)
         IN IF r.found THEN TrimCycle(r.edges, r.final[1])
            ELSE FindCycleFrom(G, i + 1, explored \cup r.seen)

find_cycle(G) == FindCycleFrom(G, 1, {})

\* only the process nodes of the cycle are returned
detect_deadlock_ProcessesOnly(procs) ==
    LET cycle == find_cycle(BuildGraph(procs))
    IN IF cycle # <<>>
       THEN [has_deadlock |-> TRUE,
             cycle |-> SelectSeq([i \in 1..Len(cycle) |-> cycle[i][1]],
                                 LAMBDA n : n.t = "P")]
       ELSE [has_deadlock |-> FALSE, cycle |-> <<>>]

detect_deadlock(procs) ==
    LET cycle == find_cycle(BuildGraph(procs))
    IN IF cycle # <<>>
       THEN [has_deadlock |-> TRUE,
             cycle |-> [i \in 1..Len(cycle) |-> cycle[i][1]]]
       ELSE [has_deadlock |-> FALSE, cycle |-> <<>>]

(***************************************************************************)
(* utils/graph_algorithms.py: dfs_cycle_detection on an adjacency map, a   *)
(* dict given as its keys in insertion order and the neighbour list of     *)
(* each key.  A Python result is a list or a bool.                         *)
(***************************************************************************)
PyList(seq) == [py |-> "list", val |-> seq]
PyBool(b) == [py |-> "bool", val |-> b]

\* `if x:` on a list or a bool
Truthy(x) == IF x.py = "list" THEN x.val # <<>> ELSE x.val

\* path.index(x)
IndexOf(seq, x) == CHOOSE i \in 1..Len(seq) :
                       seq[i] = x /\ \A k \in 1..(i - 1) : seq[k] # x

\* graph.get(node, [])
Neighbors(g, node) == IF node \in DOMAIN g.adj THEN g.adj[node] ELSE <<>>

RECURSIVE DfsNeighbors(_, _, _, _)
\* dfs(node) from its `for neighbor in ...` loop on, at neighbour i; st holds
\* visited, rec_stack and path; the answer is the value returned and st
DfsNeighbors(g, node, i, st) ==
    IF i > Len(Neighbors(g, node))
    THEN [ret |-> PyBool(FALSE),
          st |-> [st EXCEPT !.rec_stack = @ \ {node},
                            !.path = SubSeq(@, 1, Len(@) - 1)]]
    ELSE LET neighbor == Neighbors(g, node)[i]
         IN IF neighbor \notin st.visited
            THEN LET r == DfsNeighbors(g, neighbor, 1,
                              [visited |-> st.visited \cup {neighbor},
                               rec_stack |-> st.rec_stack \cup {neighbor},
                               path |-> Append(st.path, neighbor)])
                 IN IF Truthy(r.ret)
                    THEN [ret |-> PyBool(TRUE), st |-> r.st]
                    ELSE DfsNeighbors(g, node, i + 1, r.st)
            ELSE IF neighbor \in st.rec_stack
            THEN [ret |-> PyList(SubSeq(st.path, IndexOf(st.path, neighbor),
                                        Len(st.path))),
                  st |-> st]
            ELSE DfsNeighbors(g, node, i + 1, st)

\* def dfs(node)
dfs(g, node, st) ==
    DfsNeighbors(g, node, 1,
                 [visited |-> st.visited \cup {node},
                  rec_stack |-> st.rec_stack \cup {node},
                  path |-> Append(st.path, node)])

RECURSIVE DfsFromKey(_, _, _)
\* for node in graph: if node not in visited: result = dfs(node) ...
DfsFromKey(g, i, st) ==
    IF i > Len(g.keys) THEN PyList(<<>>)
    ELSE IF g.keys[i] \in st.visited THEN DfsFromKey(g, i + 1, st)
    ELSE LET r == dfs(g, g.keys[i], st)
         IN IF Truthy(r.ret) THEN r.ret ELSE DfsFromKey(g, i + 1, r.st)

dfs_cycle_detection(g) ==
    DfsFromKey(g, 1, [visited |-> {}, rec_stack |-> {}, path |-> <<>>])

(***************************************************************************)
(* AIPredictor                                                             *)
(***************************************************************************)
RECURSIVE SumOver(_, _)
\* sum of f[i] over the ids in S, for a function f into the integers
SumOver(f, S) ==
    IF S = {} THEN 0
    ELSE LET x == CHOOSE y \in S : TRUE IN f[x] + SumOver(f, S \ {x})

Frac(n, d) == [num |-> n, den |-> d]

\* fraction > pct / 100, for a positive denominator
GtPct(f, pct) == f.num * 100 > pct * f.den

\* fraction > n
GtInt(f, n) == f.num > n * f.den

\* 1 only when every process holds and requests
check_circular_wait_advanced_All(procs) ==
    IF \A p \in DOMAIN procs :
           procs[p].allocated # <<>> /\ procs[p].requested # <<>>
    THEN 1 ELSE 0

check_circular_wait_advanced(procs) ==
    IF \E p \in DOMAIN procs :
           procs[p].allocated # <<>> /\ procs[p].requested # <<>>
    THEN 1 ELSE 0

extract_features(procs, res) ==
    LET n_processes == Cardinality(DOMAIN procs)
        total_wait == SumOver([p \in DOMAIN procs |-> procs[p].wait_time],
                              DOMAIN procs)
        total_allocated ==
            SumOver([r \in DOMAIN res |-> res[r].instances - res[r].available],
                    DOMAIN res)
        total_available == SumOver([r \in DOMAIN res |-> res[r].instances],
                                   DOMAIN res)
    IN [n_processes |-> n_processes,
        n_resources |-> Cardinality(DOMAIN res),
        avg_wait_time |-> IF n_processes > 0 THEN Frac(total_wait, n_processes)
                          ELSE Frac(0, 1),
        resource_util |-> IF total_available > 0
                          THEN Frac(total_allocated, total_available)
                          ELSE Frac(0, 1),
        circular_wait |-> check_circular_wait_advanced(procs)]

\* the first floor at the blocking threshold itself
CircularWaitFloor_AtThreshold(f, p) ==
    IF f.circular_wait = 1
    THEN LET p1 == Max(p, 70)
         IN IF GtPct(f.resource_util, 80) THEN Max(p1, 90)
            ELSE IF GtPct(f.resource_util, 60) THEN Max(p1, 85)
            ELSE p1
    ELSE p

\* the two utilisation tests in the wrong order
CircularWaitFloor_Swapped(f, p) ==
    IF f.circular_wait = 1
    THEN LET p1 == Max(p, 75)
         IN IF GtPct(f.resource_util, 60) THEN Max(p1, 85)
            ELSE IF GtPct(f.resource_util, 80) THEN Max(p1, 90)
            ELSE p1
    ELSE p

\* if circular_wait == 1: floors 0.75 / 0.90 / 0.85
CircularWaitFloor(f, p) ==
    IF f.circular_wait = 1
    THEN LET p1 == Max(p, 75)
         IN IF GtPct(f.resource_util, 80) THEN Max(p1, 90)
            ELSE IF GtPct(f.resource_util, 60) THEN Max(p1, 85)
            ELSE p1
    ELSE p

\* if resource_util > 0.9 and avg_wait_time > 80: floor 0.70
ContentionFloor(f, p) ==
    IF GtPct(f.resource_util, 90) /\ GtInt(f.avg_wait_time, 80)
    THEN Max(p, 70) ELSE p

\* the utilisation test the wrong way round
ManyProcessesBoost_Flipped(f, p) ==
    IF f.n_processes >= 5 /\ ~GtPct(f.resource_util, 70)
    THEN Min(p + 15, 100) ELSE p

\* if n_processes >= 5 and resource_util > 0.7: + 0.15
ManyProcessesBoost(f, p) ==
    IF f.n_processes >= 5 /\ GtPct(f.resource_util, 70)
    THEN Min(p + 15, 100) ELSE p

\* if avg_wait_time > 100: + 0.10
LongWaitBoost(f, p) ==
    IF GtInt(f.avg_wait_time, 100) THEN Min(p + 10, 100) ELSE p

\* the additive boosts without their caps
apply_rule_based_boost_NoCap(f, base_prob) ==
    LET p2 == ContentionFloor(f, CircularWaitFloor(f, base_prob))
        p3 == IF f.n_processes >= 5 /\ GtPct(f.resource_util, 70)
              THEN p2 + 15 ELSE p2
    IN IF GtInt(f.avg_wait_time, 100) THEN p3 + 10 ELSE p3

apply_rule_based_boost(f, base_prob) ==
    Min(LongWaitBoost(f,
            ManyProcessesBoost(f,
                ContentionFloor(f, CircularWaitFloor(f, base_prob)))),
        100)

\* 0.3 itself counted as LOW
get_risk_level_LowInclusive(probability) ==
    IF probability <= 30 THEN "LOW"
    ELSE IF probability < 70 THEN "MEDIUM"
    ELSE "HIGH"

get_risk_level(probability) ==
    IF probability < 30 THEN "LOW"
    ELSE IF probability < 70 THEN "MEDIUM"
    ELSE "HIGH"

\* where predict_deadlock's try block raises: in extract_features (a record
\* whose instances is not a number, which POST /api/resource/create stores
\* unvalidated, makes `instances - available` raise), in predict_proba (an
\* unpickled object that is no fitted classifier), or nowhere
Faults == {"none", "extract", "classifier"}

\* the body of predict_deadlock once the features are known; `fault` says
\* where an exception is raised, `base` is what predict_proba returns
\* the except branch answers like the branch without a classifier
predict_features_UnknownOnFault(f, loaded, fault, base) ==
    IF fault = "extract" \/ ~loaded \/ fault = "classifier"
    THEN [deadlock_probability |-> 0, risk_level |-> "UNKNOWN"]
    ELSE LET adjusted == apply_rule_based_boost(f, base)
         IN [deadlock_probability |-> adjusted,
             risk_level |-> get_risk_level(adjusted)]

predict_features(f, loaded, fault, base) ==
    IF fault = "extract"
    THEN [deadlock_probability |-> 0, risk_level |-> "ERROR"]
    ELSE IF ~loaded
    THEN [deadlock_probability |-> 0, risk_level |-> "UNKNOWN"]
    ELSE IF fault = "classifier"
    THEN [deadlock_probability |-> 0, risk_level |-> "ERROR"]
    ELSE LET adjusted == apply_rule_based_boost(f, base)
         IN [deadlock_probability |-> adjusted,
             risk_level |-> get_risk_level(adjusted)]

predict_deadlock(procs, res, loaded, fault, base) ==
    predict_features(extract_features(procs, res), loaded, fault, base)

(***************************************************************************)
(* What the last handler step did and answered.                            *)
(***************************************************************************)
Obs(op, pid, rid, status, deadlock, prediction, cycle) ==
    [op |-> op, pid |-> pid, rid |-> rid, status |-> status,
     deadlock_detected |-> deadlock,
     probability |-> prediction.deadlock_probability,
     risk_level |-> prediction.risk_level,
     cycle |-> cycle]

NoPrediction == [deadlock_probability |-> 0, risk_level |-> "-"]

Plain(op, pid, rid, status) == Obs(op, pid, rid, status, FALSE, NoPrediction, <<>>)

(***************************************************************************)
(* Handlers of main.py                                                     *)
(***************************************************************************)
\* POST /api/process/create
CreateProcess(requested) ==
    /\ process_counter < MaxProcs
    /\ LET r == create_process(processes, process_counter, requested)
       IN /\ processes' = r.processes
          /\ process_counter' = r.counter
          /\ last' = Plain("create_process", r.id, 0, "created")
    /\ UNCHANGED <<resources, resource_counter, model_loaded, graph,
                   active_connections, fanouts, sample>>

\* POST /api/resource/create
CreateResource(instances) ==
    /\ resource_counter < MaxRes
    /\ LET r == create_resource(resources, resource_counter, instances)
       IN /\ resources' = r.resources
          /\ resource_counter' = r.counter
          /\ last' = Plain("create_resource", 0, r.id, "created")
    /\ UNCHANGED <<processes, process_counter, model_loaded, graph,
                   active_connections, fanouts, sample>>

\* resolve_deadlock up to its first suspension: the victim is cycle[0], a
\* node name, and the notification loop starts on active_connections
resolve_deadlock(procs, info) ==
    IF info.cycle # <<>>
    THEN [processes |-> terminate_process(procs, PyStr(info.cycle[1])),
          notify |-> TRUE, victim |-> info.cycle[1]]
    ELSE [processes |-> procs, notify |-> FALSE, victim |-> info.cycle]

\* the answers predict_deadlock can give in the current state
Predictions ==
    {predict_deadlock(processes, resources, model_loaded, fault, base) :
         fault \in Faults, base \in BaseProbs}

\* a prediction without a probability blocks as well
Blocks_FailClosed(prediction) ==
    \/ prediction.deadlock_probability > 70
    \/ prediction.risk_level \in {"UNKNOWN", "ERROR"}

\* a higher threshold
Blocks_High(prediction) == prediction.deadlock_probability > 80

\* if prediction["deadlock_probability"] > 0.7
Blocks(prediction) == prediction.deadlock_probability > 70

\* the state of one run of resolve_deadlock's loop, suspended in send_json:
\* idx and conn are the list iterator's position and the connection being
\* sent to; sent, failed, removed and start record what the run has done
\* (the connections send_json was called on, those whose send raised, those
\* taken off active_connections meanwhile, the list when the run began) and
\* decision is the status request_resource returns after the loop
StartFanout(victim, decision) ==
    [victim |-> victim, idx |-> 0, conn |-> active_connections[1],
     sent |-> <<active_connections[1]>>, failed |-> {}, removed |-> {},
     start |-> active_connections, decision |-> decision]

\* what a step of the loop did, with the run's record
FanoutObs(f, op, conn, status) ==
    Plain(op, conn, 0, status) @@
    [victim |-> f.victim, sent |-> f.sent, failed |-> f.failed,
     removed |-> f.removed, start |-> f.start, decision |-> f.decision]

\* a granted request is also written to the process record: the resource
\* joins its allocated list and leaves its requested list
RequestResource_SyncsProcess(pid, rid, prediction) ==
    IF Blocks(prediction)
       THEN /\ last' = Obs("request", pid, rid, "blocked", FALSE, prediction, <<>>)
            /\ UNCHANGED <<processes, process_counter, resources,
                           resource_counter, model_loaded, graph,
                           active_connections, fanouts, sample>>
       ELSE LET alloc == allocate_resource(resources, pid, rid)
                procs == IF alloc.ok /\ pid \in DOMAIN processes
                         THEN [processes EXCEPT
                                  ![pid].allocated = Append(@, rid),
                                  ![pid].requested =
                                      IF Contains(@, rid)
                                      THEN RemoveFirst(@, rid) ELSE @]
                         ELSE processes
                deadlock_info == detect_deadlock(procs)
                status == IF alloc.ok THEN "allocated" ELSE "failed"
                res == IF deadlock_info.has_deadlock
                       THEN resolve_deadlock(procs, deadlock_info)
                       ELSE [processes |-> procs, notify |-> FALSE,
                             victim |-> <<>>]
                sending == res.notify /\ active_connections # <<>>
            IN /\ sending => Len(fanouts) < MaxFanouts
               /\ resources' = alloc.resources
               /\ graph' = BuildGraph(procs)
               /\ processes' = res.processes
               /\ fanouts' = IF sending
                             THEN Append(fanouts,
                                         StartFanout(res.victim, status))
                             ELSE fanouts
               /\ last' = Obs(IF sending THEN "request_sending" ELSE "request",
                              pid, rid, status, deadlock_info.has_deadlock,
                              prediction, deadlock_info.cycle)
               /\ UNCHANGED <<process_counter, resource_counter, model_loaded,
                              active_connections, sample>>

\* POST /api/process/request
RequestResource(pid, rid, prediction) ==
    IF Blocks(prediction)
       THEN /\ last' = Obs("request", pid, rid, "blocked", FALSE, prediction, <<>>)
            /\ UNCHANGED <<processes, process_counter, resources,
                           resource_counter, model_loaded, graph,
                           active_connections, fanouts, sample>>
       ELSE LET alloc == allocate_resource(resources, pid, rid)
                deadlock_info == detect_deadlock(processes)
                status == IF alloc.ok THEN "allocated" ELSE "failed"
                res == IF deadlock_info.has_deadlock
                       THEN resolve_deadlock(processes, deadlock_info)
                       ELSE [processes |-> processes, notify |-> FALSE,
                             victim |-> <<>>]
                sending == res.notify /\ active_connections # <<>>
            IN /\ sending => Len(fanouts) < MaxFanouts
               /\ resources' = alloc.resources
               /\ graph' = BuildGraph(processes)
               /\ processes' = res.processes
               /\ fanouts' = IF sending
                             THEN Append(fanouts,
                                         StartFanout(res.victim, status))
                             ELSE fanouts
               /\ last' = Obs(IF sending THEN "request_sending" ELSE "request",
                              pid, rid, status, deadlock_info.has_deadlock,
                              prediction, deadlock_info.cycle)
               /\ UNCHANGED <<process_counter, resource_counter, model_loaded,
                              active_connections, sample>>

\* an exception of send_json ends the loop
FanoutStep_AbortOnFailure(k, ok) ==
    /\ k \in 1..Len(fanouts)
    /\ LET f == fanouts[k]
           next == f.idx + 1
           more == ok /\ next < Len(active_connections)
           rest == SubSeq(fanouts, 1, k - 1) \o SubSeq(fanouts, k + 1, Len(fanouts))
           done == [f EXCEPT !.failed = IF ok THEN @ ELSE @ \cup {f.conn}]
           f2 == IF more
                 THEN [done EXCEPT !.idx = next,
                                   !.conn = active_connections[next + 1],
                                   !.sent = Append(@, active_connections[next + 1])]
                 ELSE done
       IN /\ fanouts' = IF more THEN [fanouts EXCEPT ![k] = f2] ELSE rest
          /\ last' = FanoutObs(f2, IF ok THEN "sent" ELSE "send_failed", f.conn,
                               IF more THEN "more" ELSE "returned")
    /\ UNCHANGED <<processes, process_counter, resources, resource_counter,
                   model_loaded, graph, active_connections, sample>>

\* resolve_deadlock's loop: the pending send_json to f.conn ends (normally or
\* with an exception that is swallowed) and the list iterator moves on
FanoutStep(k, ok) ==
    /\ k \in 1..Len(fanouts)
    /\ LET f == fanouts[k]
           next == f.idx + 1
           more == next < Len(active_connections)
           rest == SubSeq(fanouts, 1, k - 1) \o SubSeq(fanouts, k + 1, Len(fanouts))
           done == [f EXCEPT !.failed = IF ok THEN @ ELSE @ \cup {f.conn}]
           f2 == IF more
                 THEN [done EXCEPT !.idx = next,
                                   !.conn = active_connections[next + 1],
                                   !.sent = Append(@, active_connections[next + 1])]
                 ELSE done
       IN /\ fanouts' = IF more THEN [fanouts EXCEPT ![k] = f2] ELSE rest
          /\ last' = FanoutObs(f2, IF ok THEN "sent" ELSE "send_failed", f.conn,
                               IF more THEN "more" ELSE "returned")
    /\ UNCHANGED <<processes, process_counter, resources, resource_counter,
                   model_loaded, graph, active_connections, sample>>

\* POST /api/process/release
ReleaseResource(pid, rid) ==
    /\ resources' = release_resource(resources, pid, rid)
    /\ last' = Plain("release", 0, 0, "released")
    /\ UNCHANGED <<processes, process_counter, resource_counter, model_loaded, graph,
                   active_connections, fanouts, sample>>

\* the snapshot get_system_state returns: the records of both registries,
\* the detector's verdict, the prediction and detector.get_graph_data()
Snapshot(deadlock_info, prediction, G) ==
    Obs("state", 0, 0, "state", deadlock_info.has_deadlock, prediction,
        deadlock_info.cycle) @@
    [processes |-> processes, resources |-> resources,
     graph |-> get_graph_data(G)]

\* the detector's graph is not rebuilt before it is serialised
GetSystemState_StaleGraph(prediction) ==
    /\ graph' = graph
    /\ last' = Snapshot(detect_deadlock(processes), prediction, graph')
    /\ UNCHANGED <<processes, process_counter, resources, resource_counter,
                   model_loaded, active_connections, fanouts, sample>>

\* get_system_state, called by GET /api/system/state and by each pass of
\* websocket_endpoint's loop; it has no suspension point
GetSystemState(prediction) ==
    /\ graph' = BuildGraph(processes)
    /\ last' = Snapshot(detect_deadlock(processes), prediction, graph')
    /\ UNCHANGED <<processes, process_counter, resources, resource_counter,
                   model_loaded, active_connections, fanouts, sample>>

\* POST /api/system/reset
ResetSystem ==
    /\ processes' = pm_reset.processes
    /\ process_counter' = pm_reset.counter
    /\ resources' = rm_reset.resources
    /\ resource_counter' = rm_reset.counter
    /\ last' = Plain("reset", 0, 0, "reset")
    /\ UNCHANGED <<model_loaded, graph, active_connections, fanouts, sample>>

\* websocket_endpoint: accept and register
WsConnect(c) ==
    /\ ~Contains(active_connections, c)
    /\ active_connections' = Append(active_connections, c)
    /\ last' = Plain("ws_connect", c, 0, "connected")
    /\ UNCHANGED <<processes, process_counter, resources, resource_counter,
                   model_loaded, graph, fanouts, sample>>

\* websocket_endpoint: WebSocketDisconnect raised by send_json
WsDisconnect(c) ==
    /\ Contains(active_connections, c)
    /\ active_connections' = RemoveFirst(active_connections, c)
    /\ fanouts' = [k \in DOMAIN fanouts |->
                      [fanouts[k] EXCEPT !.removed = @ \cup {c}]]
    /\ last' = Plain("ws_disconnect", c, 0, "disconnected")
    /\ UNCHANGED <<processes, process_counter, resources, resource_counter,
                   model_loaded, graph, sample>>

(***************************************************************************)
(* Scenario fixtures of main.py: each resets both registries, creates its  *)
(* processes and resources and writes the process records directly.        *)
(***************************************************************************)
Registries(procs, pctr, res, rctr) ==
    [processes |-> procs, process_counter |-> pctr,
     resources |-> res, resource_counter |-> rctr]

Fresh == Registries(pm_reset.processes, pm_reset.counter,
                    rm_reset.resources, rm_reset.counter)

ScnCreateProcess(st) ==
    LET r == create_process(st.processes, st.process_counter, <<>>)
    IN [st EXCEPT !.processes = r.processes, !.process_counter = r.counter]

ScnCreateResource(st, instances) ==
    LET r == create_resource(st.resources, st.resource_counter, instances)
    IN [st EXCEPT !.resources = r.resources, !.resource_counter = r.counter]

RECURSIVE ScnProcesses(_, _)
ScnProcesses(st, n) ==
    IF n = 0 THEN st ELSE ScnProcesses(ScnCreateProcess(st), n - 1)

RECURSIVE ScnResources(_, _, _)
ScnResources(st, n, instances) ==
    IF n = 0 THEN st
    ELSE ScnResources(ScnCreateResource(st, instances), n - 1, instances)

\* resource_manager.allocate_resource(p, r); processes[p]["allocated"] = [r]
ScnHold(st, p, r) ==
    [st EXCEPT !.resources = allocate_resource(@, p, r).resources,
               !.processes[p].allocated = <<r>>]

\* processes[p]["requested"] = [r]
ScnWant(st, p, r) == [st EXCEPT !.processes[p].requested = <<r>>]

ScnWait(st, p, w, state) ==
    [st EXCEPT !.processes[p].wait_time = w, !.processes[p].state = state]

RECURSIVE ScnRing(_, _, _)
\* for i in range(n): process i+1 holds resource i+1, requests (i+1) % n + 1
ScnRing(st, i, n) ==
    IF i >= n THEN st
    ELSE ScnRing(ScnWant(ScnHold(st, i + 1, i + 1), i + 1, ((i + 1) % n) + 1),
                 i + 1, n)

deadlock_scenario ==
    ScnWant(ScnHold(
        ScnWant(ScnHold(ScnResources(ScnProcesses(Fresh, 2), 2, 1), 1, 1), 1, 2),
        2, 2), 2, 1)

dining_philosophers == ScnRing(ScnResources(ScnProcesses(Fresh, 5), 5, 1), 0, 5)

near_deadlock ==
    ScnWait(ScnHold(
        ScnWait(ScnHold(
            ScnWait(ScnHold(ScnResources(ScnProcesses(Fresh, 3), 3, 1), 1, 1),
                    1, 120, "waiting"),
            2, 2), 2, 115, "waiting"),
        3, 3), 3, 110, "waiting")

\* resource_manager.allocate_resource(p, r) on its own
ScnAllocate(st, p, r) ==
    [st EXCEPT !.resources = allocate_resource(@, p, r).resources]

\* processes[p]["allocated"] = allocated; ["requested"] = requested;
\* ["wait_time"] = w
ScnLists(st, p, allocated, requested, w) ==
    [st EXCEPT !.processes[p].allocated = allocated,
               !.processes[p].requested = requested,
               !.processes[p].wait_time = w]

\* setup_banker_unsafe_state: resources of 10, 5 and 7 instances; P1 holds
\* one of R2, P2 two of R1, P3 three of R1 and two of R3
banker_unsafe_state ==
    LET s0 == ScnCreateResource(ScnCreateResource(ScnCreateResource(
                  ScnProcesses(Fresh, 3), 10), 5), 7)
        s1 == ScnLists(ScnAllocate(s0, 1, 2), 1, <<2>>, <<1, 2, 3>>, 100)
        s2 == ScnLists(ScnAllocate(ScnAllocate(s1, 2, 1), 2, 1),
                       2, <<1, 1>>, <<1, 2, 3>>, 95)
        s3 == ScnAllocate(ScnAllocate(ScnAllocate(ScnAllocate(ScnAllocate(
                  s2, 3, 1), 3, 1), 3, 1), 3, 3), 3, 3)
    IN ScnLists(s3, 3, <<1, 1, 1, 3, 3>>, <<1>>, 110)

Scenarios ==
    [setup_deadlock |-> deadlock_scenario,
     dining_philosophers |-> dining_philosophers,
     near_deadlock |-> near_deadlock]

\* detector.detect_deadlock(process_manager.processes, ...) of each fixture
ScenarioVerdicts ==
    [name \in DOMAIN Scenarios |-> detect_deadlock(Scenarios[name].processes)]

\* POST /api/test/<scenario>; of the answer only the detector's verdict is
\* recorded
SetupScenario(name) ==
    LET st == Scenarios[name]
        deadlock_info == ScenarioVerdicts[name]
    IN /\ processes' = st.processes
       /\ process_counter' = st.process_counter
       /\ resources' = st.resources
       /\ resource_counter' = st.resource_counter
       /\ last' = Obs(name, 0, 0, "setup", deadlock_info.has_deadlock,
                      NoPrediction, deadlock_info.cycle)
       /\ graph' = BuildGraph(st.processes)
       /\ UNCHANGED <<model_loaded, active_connections, fanouts, sample>>

(***************************************************************************)
(* The system as its HTTP handlers drive it, no websocket client being     *)
(* connected                                                               *)
(***************************************************************************)
Init ==
    /\ processes = pm_reset.processes
    /\ process_counter = pm_reset.counter
    /\ resources = rm_reset.resources
    /\ resource_counter = rm_reset.counter
    /\ model_loaded \in BOOLEAN
    /\ graph = EmptyGraph
    /\ active_connections = <<>>
    /\ fanouts = <<>>
    /\ sample = <<>>
    /\ last = Plain("init", 0, 0, "init")

Next ==
    \/ \E requested \in ReqChoices : CreateProcess(requested)
    \/ \E instances \in HandlerInstChoices : CreateResource(instances)
    \/ \E prediction \in Predictions : \E pid \in PIDs, rid \in RIDs :
           RequestResource(pid, rid, prediction)
    \/ \E pid \in PIDs, rid \in RIDs : ReleaseResource(pid, rid)
    \/ \E prediction \in Predictions : GetSystemState(prediction)
    \/ ResetSystem
    \/ \E name \in DOMAIN Scenarios : SetupScenario(name)

Spec == Init /\ [][Next]_vars

(***************************************************************************)
(* The two registries on their own: the methods of ProcessManager and      *)
(* ResourceManager called directly, in any order.                          *)
(***************************************************************************)
PmCreate(requested) ==
    /\ process_counter < MaxProcs
    /\ LET r == create_process(processes, process_counter, requested)
       IN /\ processes' = r.processes
          /\ process_counter' = r.counter
          /\ last' = Plain("pm_create", r.id, 0, "created")
    /\ UNCHANGED <<resources, resource_counter, model_loaded, graph,
                   active_connections, fanouts, sample>>

RECURSIVE ReleaseAllOf(_, _, _)
\* every instance pid holds of the resources in rids given back
ReleaseAllOf(res, pid, rids) ==
    IF rids = {} THEN res
    ELSE LET r == CHOOSE x \in rids : TRUE
         IN IF Contains(res[r].allocated_to, pid)
            THEN ReleaseAllOf(release_resource(res, pid, r), pid, rids)
            ELSE ReleaseAllOf(res, pid, rids \ {r})

\* terminating a process also gives back what it holds
PmTerminate_ReleasesHoldings(pid) ==
    /\ processes' = terminate_process(processes, PyInt(pid))
    /\ resources' = ReleaseAllOf(resources, pid, DOMAIN resources)
    /\ last' = Plain("pm_terminate", pid, 0, "done")
    /\ UNCHANGED <<process_counter, resource_counter, model_loaded, graph,
                   active_connections, fanouts, sample>>

PmTerminate(pid) ==
    /\ processes' = terminate_process(processes, PyInt(pid))
    /\ last' = Plain("pm_terminate", pid, 0, "done")
    /\ UNCHANGED <<process_counter, resources, resource_counter, model_loaded, graph,
                   active_connections, fanouts, sample>>

PmReset ==
    /\ processes' = pm_reset.processes
    /\ process_counter' = pm_reset.counter
    /\ last' = Plain("pm_reset", 0, 0, "done")
    /\ UNCHANGED <<resources, resource_counter, model_loaded, graph,
                   active_connections, fanouts, sample>>

RmCreate(instances) ==
    /\ resource_counter < MaxRes
    /\ LET r == create_resource(resources, resource_counter, instances)
       IN /\ resources' = r.resources
          /\ resource_counter' = r.counter
          /\ last' = Plain("rm_create", 0, r.id, "created")
    /\ UNCHANGED <<processes, process_counter, model_loaded, graph,
                   active_connections, fanouts, sample>>

RmAllocate(pid, rid) ==
    /\ LET r == allocate_resource(resources, pid, rid)
       IN /\ resources' = r.resources
          /\ last' = Plain("rm_allocate", pid, rid,
                           IF r.ok THEN "true" ELSE "false")
    /\ UNCHANGED <<processes, process_counter, resource_counter, model_loaded, graph,
                   active_connections, fanouts, sample>>

RmRelease(pid, rid) ==
    /\ resources' = release_resource(resources, pid, rid)
    /\ last' = Plain("rm_release", pid, rid, "done")
    /\ UNCHANGED <<processes, process_counter, resource_counter, model_loaded, graph,
                   active_connections, fanouts, sample>>

RmReset ==
    /\ resources' = rm_reset.resources
    /\ resource_counter' = rm_reset.counter
    /\ last' = Plain("rm_reset", 0, 0, "done")
    /\ UNCHANGED <<processes, process_counter, model_loaded, graph,
                   active_connections, fanouts, sample>>

NextRegistry ==
    \/ \E requested \in ReqChoices : PmCreate(requested)
    \/ \E pid \in PIDs : PmTerminate(pid)
    \/ PmReset
    \/ \E instances \in InstChoices : RmCreate(instances)
    \/ \E pid \in PIDs, rid \in RIDs : RmAllocate(pid, rid)
    \/ \E pid \in PIDs, rid \in RIDs : RmRelease(pid, rid)
    \/ RmReset
    \/ ResetSystem

SpecRegistry == Init /\ [][NextRegistry]_vars

(***************************************************************************)
(* The system with websocket clients, from the two-process deadlock of     *)
(* setup_deadlock_scenario: clients connect and disconnect, and a request  *)
(* the predictor does not block starts resolve_deadlock's notification     *)
(* loop, which the other handlers interleave with at its send_json.        *)
(***************************************************************************)
Observers == 1..MaxObservers

\* P1 asks for the resource P2 holds; P2 gives it back
FanRequests == {[process_id |-> 1, resource_id |-> 2]}
FanReleases == {[process_id |-> 2, resource_id |-> 2]}

InitFanout ==
    /\ processes = deadlock_scenario.processes
    /\ process_counter = deadlock_scenario.process_counter
    /\ resources = deadlock_scenario.resources
    /\ resource_counter = deadlock_scenario.resource_counter
    /\ model_loaded \in BOOLEAN
    /\ graph = EmptyGraph
    /\ active_connections = <<>>
    /\ fanouts = <<>>
    /\ sample = <<>>
    /\ last = Plain("init", 0, 0, "init")

NextFanout ==
    \/ \E c \in Observers : WsConnect(c)
    \/ \E c \in Observers : WsDisconnect(c)
    \/ \E prediction \in Predictions : \E req \in FanRequests :
           RequestResource(req.process_id, req.resource_id, prediction)
    \/ \E k \in 1..MaxFanouts, ok \in BOOLEAN : FanoutStep(k, ok)
    \/ \E rel \in FanReleases :
           ReleaseResource(rel.process_id, rel.resource_id)
    \/ \E prediction \in Predictions : GetSystemState(prediction)
    \/ ResetSystem

SpecFanout == InitFanout /\ [][NextFanout]_vars

\* the clients whose send_json may never return
SlowObservers == {1}

\* a send_json to a client that is not slow returns or raises
PromptDelivery ==
    \E k \in 1..MaxFanouts, ok \in BOOLEAN :
        /\ FanoutStep(k, ok)
        /\ fanouts[k].conn \notin SlowObservers

\* the event loop resumes a coroutine whose send_json has ended
SpecFanoutFair == SpecFanout /\ WF_vars(PromptDelivery)

(***************************************************************************)
(* detect_deadlock as a function of the snapshot: every map of at most     *)
(* DetProcs processes whose lists range over DetRes resource ids.          *)
(***************************************************************************)
DetLists == {<<>>} \cup {<<r>> : r \in 1..DetRes}

DetRequested ==
    DetLists \cup {<<r, q>> : r \in {1}, q \in 2..DetRes}

DetProcRecs ==
    {[allocated |-> a, requested |-> r, wait_time |-> 0, state |-> "ready"] :
         a \in DetLists, r \in DetRequested}

DetSnapshots == UNION {[1..n -> DetProcRecs] : n \in 0..DetProcs}

\* n processes, process i holding resource i and requesting (i mod n) + 1
Ring(n) ==
    [p \in 1..n |->
        [allocated |-> <<p>>, requested |-> <<(p % n) + 1>>,
         wait_time |-> 0, state |-> "ready"]]

Rings == {Ring(n) : n \in 2..MaxRing}

\* the snapshots detect_deadlock is given: the bounded ones, the rings and
\* the process list of the banker fixture
DetInputs == DetSnapshots \cup Rings \cup {banker_unsafe_state.processes}

\* the resource registries detect_deadlock is given (it does not read them):
\* none, and the two resources of setup_deadlock_scenario
DetRegistries == {rm_reset, [resources |-> deadlock_scenario.resources,
                             counter |-> deadlock_scenario.resource_counter]}

InitDetect ==
    /\ processes \in DetInputs
    /\ process_counter = Cardinality(DOMAIN processes)
    /\ \E reg \in DetRegistries :
           resources = reg.resources /\ resource_counter = reg.counter
    /\ model_loaded = TRUE
    /\ graph = EmptyGraph
    /\ active_connections = <<>>
    /\ fanouts = <<>>
    /\ sample = <<>>
    /\ last = Plain("init", 0, 0, "init")

\* detector.detect_deadlock(processes, resources)
DetectDeadlock ==
    /\ last.op = "init"
    /\ graph' = BuildGraph(processes)
    /\ LET deadlock_info == detect_deadlock(processes)
       IN last' = Obs("detect", 0, 0, "done", deadlock_info.has_deadlock,
                      NoPrediction, deadlock_info.cycle)
    /\ UNCHANGED <<processes, process_counter, resources, resource_counter,
                   model_loaded, active_connections, fanouts, sample>>

\* `if deadlock_info["has_deadlock"]: await resolve_deadlock(deadlock_info)`
\* on the verdict just obtained, no websocket client being connected
ResolveDeadlock ==
    /\ last.op = "detect"
    /\ last.deadlock_detected
    /\ LET res == resolve_deadlock(processes,
                                   [has_deadlock |-> last.deadlock_detected,
                                    cycle |-> last.cycle])
       IN /\ processes' = res.processes
          /\ last' = [victim |-> res.victim, cycle |-> last.cycle,
                      before |-> processes]
                     @@ Plain("resolve", 0, 0, "done")
    /\ UNCHANGED <<process_counter, resources, resource_counter, model_loaded,
                   graph, active_connections, fanouts, sample>>

NextDetect == DetectDeadlock \/ ResolveDeadlock

SpecDetect == InitDetect /\ [][NextDetect]_vars

(***************************************************************************)
(* The resource allocation graph as a relation, and its cycles.            *)
(***************************************************************************)
RagEdges(procs) ==
    UNION {{<<RNode(procs[p].allocated[i]), PNode(p)>> :
                i \in 1..Len(procs[p].allocated)}
           \cup {<<PNode(p), RNode(procs[p].requested[i])>> :
                     i \in 1..Len(procs[p].requested)} :
           p \in DOMAIN procs}

RECURSIVE Closure(_)
\* transitive closure of a finite relation
Closure(R) ==
    LET R2 == R \cup {<<x[1][1], x[2][2]>> :
                          x \in {y \in R \X R : y[1][2] = y[2][1]}}
    IN IF R2 = R THEN R ELSE Closure(R2)

HasDirectedCycle(procs) == \E e \in Closure(RagEdges(procs)) : e[1] = e[2]

\* C1: detect_deadlock reports has_deadlock = true exactly when the graph
\* with an edge R<r> -> P<p> for every r in p.allocated and P<p> -> R<r> for
\* every r in p.requested has a directed cycle.
C1_DetectIffCycle ==
    last.op = "detect" =>
        (last.deadlock_detected <=> HasDirectedCycle(processes))

\* a ring of three processes was given to detect_deadlock and reported
C1_Witness ==
    /\ last.op = "detect"
    /\ last.deadlock_detected
    /\ Len(last.cycle) = 6

(***************************************************************************)
(* predict_deadlock as a function of the feature vector and of what the    *)
(* classifier returns: two feature vectors that differ at most in          *)
(* utilisation and mean wait time, each with its own base probability.     *)
(***************************************************************************)
PredBaseProbs == {0, 20, 60, 80, 100}
PredUtils == {Frac(u, 100) : u \in {0, 60, 61, 70, 71, 80, 85, 90, 91}}
PredWaits == {Frac(w, 1) : w \in {0, 80, 81, 100, 101}}

PredFeatures ==
    {[n_processes |-> n, n_resources |-> 2, avg_wait_time |-> w,
      resource_util |-> u, circular_wait |-> c] :
         n \in {4, 5}, w \in PredWaits, u \in PredUtils, c \in {0, 1}}

\* f <= g in utilisation and in wait time, all else equal
FeaturesLeq(f, g) ==
    /\ f.n_processes = g.n_processes
    /\ f.n_resources = g.n_resources
    /\ f.circular_wait = g.circular_wait
    /\ f.resource_util.num * g.resource_util.den
           <= g.resource_util.num * f.resource_util.den
    /\ f.avg_wait_time.num * g.avg_wait_time.den
           <= g.avg_wait_time.num * f.avg_wait_time.den

\* a classifier is a function of the features: equal features, equal base
PredSamples ==
    {s \in [f1 : PredFeatures, b1 : PredBaseProbs,
            f2 : PredFeatures, b2 : PredBaseProbs,
            fault : {"none"}, loaded : {TRUE}] :
         FeaturesLeq(s.f1, s.f2) /\ (s.f1 = s.f2 => s.b1 = s.b2)}

DegenerateSamples ==
    {s \in [f1 : PredFeatures, b1 : {100}, f2 : PredFeatures, b2 : {100},
            fault : Faults, loaded : BOOLEAN] :
         s.f1 = s.f2 /\ (s.fault # "none" \/ ~s.loaded)}

InitPredict ==
    /\ processes = pm_reset.processes
    /\ process_counter = pm_reset.counter
    /\ resources = rm_reset.resources
    /\ resource_counter = rm_reset.counter
    /\ sample \in PredSamples \cup DegenerateSamples
    /\ model_loaded = sample.loaded
    /\ graph = EmptyGraph
    /\ active_connections = <<>>
    /\ fanouts = <<>>
    /\ last = Plain("init", 0, 0, "init")

\* predictor.predict_deadlock on each of the two feature vectors
Predict ==
    /\ last.op = "init"
    /\ last' = [op |-> "predict",
                first |-> predict_features(sample.f1, model_loaded,
                                           sample.fault, sample.b1),
                second |-> predict_features(sample.f2, model_loaded,
                                            sample.fault, sample.b2)]
    /\ UNCHANGED <<processes, process_counter, resources, resource_counter,
                   model_loaded, graph, active_connections, fanouts, sample>>

NextPredict == Predict

SpecPredict == InitPredict /\ [][NextPredict]_vars

(***************************************************************************)
(* dfs_cycle_detection as a function of the adjacency map: every map over  *)
(* MaxDfsNodes nodes, keys in any order, neighbour lists without repeats   *)
(* and possibly naming nodes that are not keys.                            *)
(***************************************************************************)
DfsNodes == 1..MaxDfsNodes

\* the sequences without repetition over a set of nodes
Orderings(S) ==
    {q \in UNION {[1..n -> S] : n \in 0..Cardinality(S)} :
         \A i, j \in 1..Len(q) : q[i] = q[j] => i = j}

\* key orders and neighbour lists
DfsLists == Orderings(DfsNodes)

\* the neighbour lists of the keys k
DfsAdjacencies(k) == [{k[i] : i \in 1..Len(k)} -> DfsLists]

InitDfs ==
    /\ processes = pm_reset.processes
    /\ process_counter = pm_reset.counter
    /\ resources = rm_reset.resources
    /\ resource_counter = rm_reset.counter
    /\ \E k \in DfsLists : \E a \in DfsAdjacencies(k) :
           sample = [keys |-> k, adj |-> a]
    /\ model_loaded = TRUE
    /\ graph = EmptyGraph
    /\ active_connections = <<>>
    /\ fanouts = <<>>
    /\ last = Plain("init", 0, 0, "init")

\* dfs_cycle_detection(graph)
DfsCycleDetection ==
    /\ last.op = "init"
    /\ last' = [result |-> dfs_cycle_detection(sample)]
                   @@ Plain("dfs", 0, 0, "done")
    /\ UNCHANGED <<processes, process_counter, resources, resource_counter,
                   model_loaded, graph, active_connections, fanouts, sample>>

NextDfs == DfsCycleDetection

SpecDfs == InitDfs /\ [][NextDfs]_vars

(***************************************************************************)
(* Properties                                                              *)
(***************************************************************************)
Range(seq) == {seq[i] : i \in 1..Len(seq)}

RequestOps == {"request", "request_sending"}

\* the registry without the record of process v
WithoutProcess(procs, v) == [i \in DOMAIN procs \ {v} |-> procs[i]]

\* C2: a resolve_deadlock run on a detected cycle removes exactly one process
\* record, and that process is a node of the cycle.
C2_ResolveRemovesCycleMember ==
    [][(last'.op \in RequestOps /\ last'.deadlock_detected) =>
           \E v \in DOMAIN processes :
               /\ PNode(v) \in Range(last'.cycle)
               /\ processes' = WithoutProcess(processes, v)]_vars

\* C3: every resource created with instances >= 1 has
\* available = instances - len(allocated_to) and 0 <= available <= instances.
C3_AvailableInvariant ==
    \A r \in DOMAIN resources :
        resources[r].instances >= 1 =>
            /\ resources[r].available
                   = resources[r].instances - Len(resources[r].allocated_to)
            /\ 0 <= resources[r].available
            /\ resources[r].available <= resources[r].instances

\* a two-instance resource after one of its two holders released
C3_Witness ==
    /\ last.op = "rm_release"
    /\ last.rid \in DOMAIN resources
    /\ resources[last.rid].instances = 2
    /\ resources[last.rid].available = 1
    /\ Len(resources[last.rid].allocated_to) = 1

\* C4: allocate_resource on an unknown resource id, or on a resource with
\* available = 0, returns false and leaves every resource record unchanged.
C4_AllocateFailsWithoutChange ==
    [][(/\ last'.op = "rm_allocate"
        /\ \/ last'.rid \notin DOMAIN resources
           \/ resources[last'.rid].available = 0) =>
           (last'.status = "false" /\ resources' = resources)]_vars

\* a refused allocation on an exhausted resource that has instances
C4_Witness ==
    /\ last.op = "rm_allocate"
    /\ last.status = "false"
    /\ last.rid \in DOMAIN resources
    /\ resources[last.rid].instances >= 1
    /\ resources[last.rid].available = 0

\* C5: release_resource on an unknown resource id, or by a process that is
\* not in the resource's allocated_to, leaves the resource registry unchanged.
C5_ReleaseNoOp ==
    [][(/\ last'.op = "rm_release"
        /\ \/ last'.rid \notin DOMAIN resources
           \/ ~Contains(resources[last'.rid].allocated_to, last'.pid)) =>
           (resources' = resources /\ resource_counter' = resource_counter)]_vars

\* a release by a process that holds nothing of a resource another one holds
\* entirely (available = 0 shows the call removed nothing)
C5_Witness ==
    /\ last.op = "rm_release"
    /\ last.rid \in DOMAIN resources
    /\ resources[last.rid].instances >= 1
    /\ resources[last.rid].available = 0
    /\ ~Contains(resources[last.rid].allocated_to, last.pid)

\* C6: a request whose prediction is above 0.7 is answered "blocked" and
\* changes neither registry, terminates nothing and notifies nobody.
C6_BlockedChangesNothing ==
    [][(last'.op \in RequestOps /\ last'.probability > 70) =>
           /\ last'.op = "request"
           /\ last'.status = "blocked"
           /\ processes' = processes
           /\ process_counter' = process_counter
           /\ resources' = resources
           /\ resource_counter' = resource_counter
           /\ fanouts' = fanouts
           /\ active_connections' = active_connections]_vars

\* a blocked request for a free resource while the snapshot has a cycle and
\* an observer is connected
C6_Witness ==
    /\ last.op = "request"
    /\ last.status = "blocked"
    /\ last.probability > 70
    /\ HasDirectedCycle(processes)
    /\ last.rid \in DOMAIN resources
    /\ resources[last.rid].available > 0
    /\ active_connections # <<>>

\* the call reached the classifier and the rules
PredictOk == last.op = "predict" /\ sample.fault = "none" /\ model_loaded

\* C7: with circular_wait = 1 the probability is at least 0.75, at least 0.85
\* when utilisation > 0.6 and at least 0.90 when utilisation > 0.8, whatever
\* the classifier returned.
C7_CircularWaitFloors ==
    PredictOk =>
        LET f == sample.f1
            p == last.first.deadlock_probability
        IN f.circular_wait = 1 =>
               /\ p >= 75
               /\ (f.resource_util.num * 100 > 60 * f.resource_util.den => p >= 85)
               /\ (f.resource_util.num * 100 > 80 * f.resource_util.den => p >= 90)

\* circular wait at utilisation 0.85 with a classifier that answers 0
C7_Witness ==
    /\ PredictOk
    /\ sample.f1.circular_wait = 1
    /\ sample.f1.resource_util = Frac(85, 100)
    /\ sample.b1 = 0
    /\ last.first.deadlock_probability = 90

\* C8 as stated: the probability does not decrease when utilisation and mean
\* wait time grow, for any classifier.
C8_MonotoneAnyClassifier ==
    PredictOk =>
        last.first.deadlock_probability <= last.second.deadlock_probability

\* C8 amended: the probability does not decrease when utilisation and mean
\* wait time grow and the classifier's base probability does not decrease.
C8_MonotoneGivenBase ==
    (PredictOk /\ sample.b1 <= sample.b2) =>
        last.first.deadlock_probability <= last.second.deadlock_probability

\* two vectors that differ in utilisation and wait time, across the rule
\* thresholds, with the same base probability
C8_Witness ==
    /\ PredictOk
    /\ sample.b1 = sample.b2
    /\ sample.f1.resource_util = Frac(60, 100)
    /\ sample.f2.resource_util = Frac(91, 100)
    /\ sample.f1.avg_wait_time = Frac(80, 1)
    /\ sample.f2.avg_wait_time = Frac(101, 1)
    /\ last.first.deadlock_probability < last.second.deadlock_probability

PmResets == {"pm_reset", "reset"}
RmResets == {"rm_reset", "reset"}

\* C10: after a reset the registry holds no records and the next create
\* returns id 1; the coordinator's reset does so for both registries.
C10_ResetRestartsIds ==
    [][/\ last'.op \in PmResets =>
              /\ DOMAIN processes' = {}
              /\ create_process(processes', process_counter', <<>>).id = 1
       /\ last'.op \in RmResets =>
              /\ DOMAIN resources' = {}
              /\ create_resource(resources', resource_counter', 1).id = 1
       /\ (last.op \in PmResets /\ last'.op = "pm_create") =>
              (last'.pid = 1 /\ DOMAIN processes' = {1})
       /\ (last.op \in RmResets /\ last'.op = "rm_create") =>
              (last'.rid = 1 /\ DOMAIN resources' = {1})]_vars

\* the process registry reset while the resource registry is in use
C10_Witness ==
    /\ last.op = "pm_reset"
    /\ DOMAIN processes = {}
    /\ process_counter = 0
    /\ \E r \in DOMAIN resources : resources[r].allocated_to # <<>>

\* C11: for a ring of N >= 2 processes, process i holding resource i and
\* requesting resource (i mod N) + 1, detect_deadlock reports a deadlock and
\* the cycle it returns contains all N process nodes and all N resource nodes.
C11_RingDetectedWhole ==
    (last.op = "detect" /\ processes \in Rings) =>
        /\ last.deadlock_detected
        /\ \A p \in DOMAIN processes :
               {PNode(p), RNode(p)} \subseteq Range(last.cycle)

\* the five-process ring was given to detect_deadlock
C11_Witness ==
    /\ last.op = "detect"
    /\ processes = Ring(MaxRing)
    /\ Len(last.cycle) = 2 * MaxRing

\* C12: when detect_deadlock reports a deadlock, some process both holds and
\* requests (check_circular_wait_advanced gives 1); a snapshot in which no
\* process requests anything is reported free of deadlock.
C12_CycleNeedsCircularWait ==
    last.op = "detect" =>
        /\ last.deadlock_detected =>
               check_circular_wait_advanced(processes) = 1
        /\ (\A p \in DOMAIN processes : processes[p].requested = <<>>) =>
               ~last.deadlock_detected

\* a deadlock reported in a snapshot that also has an idle process
C12_Witness ==
    /\ last.op = "detect"
    /\ last.deadlock_detected
    /\ \E p \in DOMAIN processes :
           processes[p].allocated = <<>> /\ processes[p].requested = <<>>

\* C13: create_resource with instances < 1 creates no record, so every
\* record of the registry has instances >= 1.
C13_InvalidInstanceCountRejected ==
    \A r \in DOMAIN resources : resources[r].instances >= 1

Degenerate(level) == [deadlock_probability |-> 0, risk_level |-> level]

FanoutOps == {"sent", "send_failed"}

C16_SlowObserverNeverBlocks ==
    /\ (fanouts # <<>>) ~> (fanouts = <<>>)
    /\ \A c \in Observers \ SlowObservers :
           (\E k \in DOMAIN fanouts :
                c \in Range(fanouts[k].start) /\ ~Contains(fanouts[k].sent, c))
           ~> (\A k \in DOMAIN fanouts : Contains(fanouts[k].sent, c))

\* C17: every snapshot of get_system_state is of one instant: its registries
\* are the registries as they stand between handler steps, and its graph,
\* verdict and cycle are those detect_deadlock builds from the processes in
\* the same snapshot.
C17_SnapshotConsistent ==
    [][last'.op = "state" =>
           /\ last'.processes = processes /\ processes' = processes
           /\ last'.resources = resources /\ resources' = resources
           /\ last'.graph = get_graph_data(BuildGraph(last'.processes))
           /\ last'.deadlock_detected = HasDirectedCycle(last'.processes)
           /\ last'.cycle = detect_deadlock(last'.processes).cycle]_vars

\* a snapshot of a deadlocked registry taken while a request is suspended in
\* its notification loop
C17_Witness ==
    /\ last.op = "state"
    /\ last.deadlock_detected
    /\ Len(last.graph.edges) >= 4
    /\ fanouts # <<>>

\* the state changes the per-process state machine allows
StateEdges ==
    {<<"ready", "waiting">>, <<"waiting", "blocked">>, <<"waiting", "ready">>}

\* C18: a ready process whose request through request_resource is not
\* satisfied becomes waiting, and a handler step changes the state of a
\* process only along ready -> waiting, waiting -> blocked, waiting -> ready.
C18_ProcessStateMachine ==
    [][last'.op \in RequestOps \cup {"release", "state"} =>
           /\ \A p \in DOMAIN processes \cap DOMAIN processes' :
                  \/ processes'[p].state = processes[p].state
                  \/ <<processes[p].state, processes'[p].state>> \in StateEdges
           /\ (/\ last'.op \in RequestOps
               /\ last'.status = "failed"
               /\ last'.rid \in DOMAIN resources
               /\ resources[last'.rid].instances >= 1
               /\ last'.pid \in DOMAIN processes \cap DOMAIN processes'
               /\ processes[last'.pid].state = "ready") =>
                  processes'[last'.pid].state = "waiting"]_vars

\* C19: terminate_process(id) removes the record of id and nothing else (no
\* record when id is absent) and leaves the resource registry as it is; a
\* later release_resource by the terminated process still gives back one
\* instance.
C19_TerminateLeavesResources ==
    [][/\ last'.op = "pm_terminate" =>
              /\ processes' = WithoutProcess(processes, last'.pid)
              /\ resources' = resources
              /\ resource_counter' = resource_counter
       /\ (/\ last'.op = "rm_release"
           /\ last'.pid \notin DOMAIN processes
           /\ last'.rid \in DOMAIN resources
           /\ Contains(resources[last'.rid].allocated_to, last'.pid)) =>
              /\ Count(resources'[last'.rid].allocated_to, last'.pid)
                     = Count(resources[last'.rid].allocated_to, last'.pid) - 1
              /\ resources'[last'.rid].available
                     = resources[last'.rid].available + 1]_vars

\* a process was terminated while a resource still lists it as a holder
C19_Witness ==
    /\ last.op = "pm_terminate"
    /\ last.pid \notin DOMAIN processes
    /\ last.pid <= process_counter
    /\ \E r \in DOMAIN resources : Contains(resources[r].allocated_to, last.pid)

\* C20: a request the pre-check lets through is answered "allocated" exactly
\* when the resource exists and has available > 0, one instance then going
\* to the process, and "failed" otherwise, the resource registry unchanged.
C20_AllocatedIffAvailable ==
    [][(last'.op \in RequestOps /\ last'.status # "blocked") =>
           LET pid == last'.pid
               rid == last'.rid
               free == rid \in DOMAIN resources /\ resources[rid].available > 0
           IN /\ last'.status = (IF free THEN "allocated" ELSE "failed")
              /\ free =>
                     resources' =
                         [resources EXCEPT ![rid].available = @ - 1,
                                           ![rid].allocated_to = Append(@, pid)]
              /\ ~free => resources' = resources
              /\ resource_counter' = resource_counter]_vars

\* a request was answered "allocated" and took the last instance
C20_Witness ==
    /\ last.op \in RequestOps
    /\ last.status = "allocated"
    /\ last.rid \in DOMAIN resources
    /\ resources[last.rid].available = 0
    /\ Contains(resources[last.rid].allocated_to, last.pid)

\* the risk level a probability in hundredths must carry
LevelOf(answer) ==
    LET p == answer.deadlock_probability
        l == answer.risk_level
    IN /\ (l = "LOW") <=> (p < 30)
       /\ (l = "MEDIUM") <=> (30 <= p /\ p < 70)
       /\ (l = "HIGH") <=> (p >= 70)

\* C21: a prediction that reached the classifier and the rules is LOW iff
\* its probability is below 0.3, MEDIUM iff it is in [0.3, 0.7) and HIGH iff
\* it is at least 0.7; a prediction above the blocking threshold is HIGH.
C21_RiskLevelBands ==
    PredictOk =>
        /\ LevelOf(last.first)
        /\ LevelOf(last.second)
        /\ Blocks(last.first) => last.first.risk_level = "HIGH"
        /\ Blocks(last.second) => last.second.risk_level = "HIGH"

\* a probability of exactly 0.3 (MEDIUM) next to one that blocks (HIGH)
C21_Witness ==
    /\ PredictOk
    /\ last.first.deadlock_probability = 30
    /\ last.first.risk_level = "MEDIUM"
    /\ Blocks(last.second)
    /\ last.second.risk_level = "HIGH"

\* the first process node of a cycle sequence (every cycle has one)
FirstProcessNode(cycle) ==
    LET ps == {i \in 1..Len(cycle) : cycle[i].t = "P"}
    IN cycle[CHOOSE i \in ps : \A j \in ps : i <= j]

\* C22: the victim resolve_deadlock chooses and announces is the first
\* process node of the returned cycle sequence, never a resource node, also
\* when the sequence starts at a resource node.
C22_VictimIsFirstProcessNode ==
    last.op = "resolve" =>
        /\ last.victim.t = "P"
        /\ last.victim = FirstProcessNode(last.cycle)

DegenerateLevels == {"UNKNOWN", "ERROR"}

\* C23: a request whose prediction reached the classifier and the rules
\* never gets to resolve_deadlock: when the snapshot has a cycle its
\* probability is at least 0.75 and it is blocked; a request that detects a
\* deadlock carries a prediction of level UNKNOWN or ERROR.
C23_ResolveOnlyWhenDegenerate ==
    [][last'.op \in RequestOps =>
           /\ last'.deadlock_detected => last'.risk_level \in DegenerateLevels
           /\ (/\ HasDirectedCycle(processes)
               /\ last'.risk_level \notin DegenerateLevels) =>
                  /\ last'.probability >= 75
                  /\ last'.status = "blocked"
                  /\ processes' = processes
                  /\ fanouts' = fanouts]_vars

\* a request on a snapshot with a cycle, at a utilisation where only the
\* first floor applies, was blocked at exactly 0.75
C23_Witness ==
    /\ last.op = "request"
    /\ last.status = "blocked"
    /\ last.risk_level = "HIGH"
    /\ last.probability = 75
    /\ HasDirectedCycle(processes)

\* C24: a request that is not blocked, and a release, leave the allocated and
\* requested lists of every process record as they were; the
\* deadlock_detected a request returns is detect_deadlock's verdict on the
\* process registry as it stood before the call, allocated or failed.
C24_AllocationLeavesProcessLists ==
    [][/\ last'.op = "release" => processes' = processes
       /\ (last'.op \in RequestOps /\ last'.status # "blocked") =>
              /\ \A p \in DOMAIN processes' :
                     /\ p \in DOMAIN processes
                     /\ processes'[p].allocated = processes[p].allocated
                     /\ processes'[p].requested = processes[p].requested
              /\ last'.deadlock_detected
                     = detect_deadlock(processes).has_deadlock
              /\ last'.deadlock_detected = HasDirectedCycle(processes)]_vars

\* a process of a cycle was granted the resource it requested: the resource
\* lists it as a holder, its own record still requests and does not hold
\* it, and the deadlock is still reported
C24_Witness ==
    /\ last.op \in RequestOps
    /\ last.status = "allocated"
    /\ last.deadlock_detected
    /\ last.pid \in DOMAIN processes
    /\ Contains(resources[last.rid].allocated_to, last.pid)
    /\ Contains(processes[last.pid].requested, last.rid)
    /\ ~Contains(processes[last.pid].allocated, last.rid)

\* C25: a request whose prediction is degenerate (probability 0.0 with
\* level UNKNOWN or ERROR) is never blocked: it goes on to allocate_resource,
\* also when the snapshot has a cycle; without a classifier no request is
\* blocked.
C25_DegenerateNeverBlocked ==
    [][last'.op \in RequestOps =>
           /\ last'.risk_level \in DegenerateLevels =>
                  /\ last'.probability = 0
                  /\ last'.status \in {"allocated", "failed"}
                  /\ last'.status = "allocated" <=>
                         allocate_resource(resources, last'.pid, last'.rid).ok
                  /\ resources' =
                         allocate_resource(resources, last'.pid,
                                           last'.rid).resources
           /\ ~model_loaded => last'.risk_level \in DegenerateLevels]_vars

\* without a classifier, a request on a snapshot with a cycle was granted
C25_Witness ==
    /\ last.op \in RequestOps
    /\ ~model_loaded
    /\ last.risk_level = "UNKNOWN"
    /\ last.status = "allocated"
    /\ HasDirectedCycle(processes)

\* the other resource records, and the counts of the other holders of rid
OthersUnchanged(res, res2, pid, rid) ==
    /\ DOMAIN res2 = DOMAIN res
    /\ \A r \in DOMAIN res \ {rid} : res2[r] = res[r]
    /\ res2[rid].instances = res[rid].instances
    /\ \A q \in Range(res[rid].allocated_to) \cup Range(res2[rid].allocated_to) :
           q # pid => Count(res2[rid].allocated_to, q)
                          = Count(res[rid].allocated_to, q)

\* C26: holdings are counted per instance: a successful allocate_resource
\* adds one occurrence of the process to allocated_to and takes one from
\* available, a release_resource by a holder removes one occurrence and adds
\* one to available, and neither changes any other resource record.
C26_PerInstanceCounting ==
    [][/\ (last'.op = "rm_allocate" /\ last'.status = "true") =>
              /\ Count(resources'[last'.rid].allocated_to, last'.pid)
                     = Count(resources[last'.rid].allocated_to, last'.pid) + 1
              /\ resources'[last'.rid].available
                     = resources[last'.rid].available - 1
              /\ OthersUnchanged(resources, resources', last'.pid, last'.rid)
       /\ (/\ last'.op = "rm_release"
           /\ last'.rid \in DOMAIN resources
           /\ Contains(resources[last'.rid].allocated_to, last'.pid)) =>
              /\ Count(resources'[last'.rid].allocated_to, last'.pid)
                     = Count(resources[last'.rid].allocated_to, last'.pid) - 1
              /\ resources'[last'.rid].available
                     = resources[last'.rid].available + 1
              /\ OthersUnchanged(resources, resources', last'.pid, last'.rid)]_vars

\* a process that held both instances of a resource released one and still
\* holds the other, another resource being held meanwhile
C26_Witness ==
    /\ last.op = "rm_release"
    /\ last.rid \in DOMAIN resources
    /\ resources[last.rid].instances = 2
    /\ resources[last.rid].available = 1
    /\ resources[last.rid].allocated_to = <<last.pid>>
    /\ \E r \in DOMAIN resources \ {last.rid} : resources[r].allocated_to # <<>>

\* the node after position i, going round the sequence
NextOnCycle(cycle, i) == cycle[(i % Len(cycle)) + 1]

\* C27: a cycle returned by detect_deadlock is a directed cycle of the graph
\* it built: its nodes are pairwise distinct, each node has an edge to the
\* next and the last to the first, and process and resource nodes
\* alternate; on an acyclic graph no sequence is returned.
C27_ReturnedCycleIsGenuine ==
    last.op = "detect" =>
        IF last.deadlock_detected
        THEN /\ last.cycle # <<>>
             /\ \A i, j \in 1..Len(last.cycle) :
                    last.cycle[i] = last.cycle[j] => i = j
             /\ \A i \in 1..Len(last.cycle) :
                    /\ last.cycle[i] \in NodeSet(graph)
                    /\ Contains(graph.adj[last.cycle[i]],
                                NextOnCycle(last.cycle, i))
                    /\ last.cycle[i].t # NextOnCycle(last.cycle, i).t
        ELSE /\ last.cycle = <<>>
             /\ ~HasDirectedCycle(processes)

\* a cycle of four nodes entered at a resource node, reached from a process
\* that is not on it
C27_Witness ==
    /\ last.op = "detect"
    /\ Len(last.cycle) = 4
    /\ last.cycle[1].t = "R"
    /\ PNode(1) \notin Range(last.cycle)
    /\ processes[1].requested # <<>>

\* the resource ids some process lists as held or requested
ReferencedIds(procs) ==
    UNION {Range(procs[p].allocated) \cup Range(procs[p].requested) :
               p \in DOMAIN procs}

\* C28: the graph detect_deadlock builds, as get_graph_data serialises it,
\* has exactly one node per process and one per resource id found in an
\* allocated or requested list (in the resource registry or not, and no
\* node for a registry resource no process lists), each with its type, and
\* exactly one edge per distinct holding and per distinct request.
C28_GraphNodesAndEdgesExact ==
    last.op = "detect" =>
        LET data == get_graph_data(graph)
            expected == {PNode(p) : p \in DOMAIN processes}
                            \cup {RNode(r) : r \in ReferencedIds(processes)}
        IN /\ {data.nodes[i].id : i \in 1..Len(data.nodes)} = expected
           /\ Len(data.nodes) = Cardinality(expected)
           /\ \A i \in 1..Len(data.nodes) :
                  data.nodes[i].type = (IF data.nodes[i].id.t = "P"
                                        THEN "process" ELSE "resource")
           /\ {<<data.edges[i].source, data.edges[i].target>> :
                   i \in 1..Len(data.edges)} = RagEdges(processes)
           /\ Len(data.edges) = Cardinality(RagEdges(processes))

\* the process list of the banker fixture, with repeated holdings, given
\* with a registry that does not know resource 3
C28_Witness ==
    /\ last.op = "detect"
    /\ \E p \in DOMAIN processes : Count(processes[p].allocated, 1) = 3
    /\ 3 \in ReferencedIds(processes) \ DOMAIN resources
    /\ Len(graph.nodes) = 6
    /\ Len(get_graph_data(graph).edges) = 11

\* C29: when a notification loop returns, every client that was on
\* active_connections when it started and was not taken off it meanwhile
\* has been sent the event exactly once, whichever other clients
\* disconnected while the loop was suspended in a send.
C29_RegisteredObserversNotifiedOnce ==
    (last.op \in FanoutOps /\ last.status = "returned") =>
        \A c \in Range(last.start) \ last.removed : Count(last.sent, c) = 1

\* the edges of an adjacency map
MapEdges(g) ==
    UNION {{<<n, g.adj[n][i]>> : i \in 1..Len(g.adj[n])} : n \in DOMAIN g.adj}

\* C30: dfs_cycle_detection returns a list: the nodes of a cycle of the map
\* in order, each with an edge to the next and the last with an edge to the
\* first, when the map has a cycle of any length, and the empty list when
\* it has none.
C30_DfsReturnsCycleList ==
    last.op = "dfs" =>
        /\ last.result.py = "list"
        /\ LET c == last.result.val
           IN IF \E e \in Closure(MapEdges(sample)) : e[1] = e[2]
              THEN /\ c # <<>>
                   /\ \A i \in 1..Len(c) :
                          <<c[i], NextOnCycle(c, i)>> \in MapEdges(sample)
              ELSE c = <<>>

====
